---- MODULE Spec2Model ----
(***************************************************************************)
(* A model of the Local Action Checker GitHub App:                         *)
(*   - src/src/workflow-analyzer.js : WorkflowAnalyzer (isLocalAction,     *)
(*     analyzeWorkflow, getActionDetails);                                 *)
(*   - src/src/index.js : the deployment_protection_rule.requested handler *)
(*     with getWorkflowRun, getWorkflowContent, approveDeployment,         *)
(*     rejectDeployment and getWorkflowRunIdFromPayload.                   *)
(*                                                                         *)
(* JavaScript strings on which the code works character by character       *)
(* (action references, job names, callback URLs) are sequences of          *)
(* one-character strings; messages built by the code are TLA+ strings.     *)
(***************************************************************************)
EXTENDS Integers, Sequences, FiniteSets, TLC

(***************************************************************************)
(* Bounds of the model.                                                    *)
(***************************************************************************)
\* Longest action reference drawn exhaustively over RefAlphabet.
MaxRefLen == 3
\* Most steps (over all its jobs) of a workflow document given to the analyzer.
MaxSteps == 2
\* Most steps of a workflow document fetched by the webhook handler.
MaxFetchedSteps == 2
\* Most calls of analyzeWorkflow made in a row on the analyzer instances.
MaxCalls == 3

(***************************************************************************)
(* JavaScript values, as far as the code inspects them.                    *)
(***************************************************************************)
Undef == [t |-> "undefined"]
Null == [t |-> "null"]
Num(n) == [t |-> "number", n |-> n]
Bool(b) == [t |-> "boolean", b |-> b]
StrV(s) == [t |-> "string", s |-> s]
\* A YAML sequence or mapping given where a scalar is expected (uses: [x]).
ListV == [t |-> "array"]
MapV == [t |-> "object"]

\* ToBoolean: what `if (v)`, `!v` and `v || w` test.
Truthy(v) ==
  CASE v.t = "undefined" -> FALSE
    [] v.t = "null" -> FALSE
    [] v.t = "number" -> v.n # 0
    [] v.t = "boolean" -> v.b
    [] v.t = "string" -> v.s # <<>>
    [] OTHER -> TRUE

\* typeof v === 'string'
IsString(v) == v.t = "string"

\* String.prototype.startsWith
StartsWith(s, p) == Len(s) >= Len(p) /\ SubSeq(s, 1, Len(p)) = p

\* String.prototype.includes
Includes(s, p) ==
  \E i \in 1..(Len(s) - Len(p) + 1) : SubSeq(s, i, i + Len(p) - 1) = p

\* The characters of a JavaScript string as one TLA+ string.
RECURSIVE Str(_)
Str(s) == IF s = <<>> THEN "" ELSE Head(s) \o Str(Tail(s))

Digits == <<"0", "1", "2", "3", "4", "5", "6", "7", "8", "9">>
IsDigit(c) == \E d \in 1..10 : Digits[d] = c
DigitValue(c) == (CHOOSE d \in 1..10 : Digits[d] = c) - 1

\* parseInt(s, 10) of a string of decimal digits.
RECURSIVE ParseInt(_)
ParseInt(s) ==
  IF s = <<>> THEN 0
  ELSE 10 * ParseInt(SubSeq(s, 1, Len(s) - 1)) + DigitValue(s[Len(s)])

\* Array.prototype.join over strings.
RECURSIVE Join(_, _)
Join(list, sep) ==
  IF list = <<>> THEN ""
  ELSE IF Len(list) = 1 THEN Str(list[1].s)
  ELSE Str(list[1].s) \o sep \o Join(Tail(list), sep)

DedupKeepAll(list) == list

\* [...new Set(list)]: the first occurrence of each element, in order.
RECURSIVE Dedup(_)
Dedup(list) ==
  IF list = <<>> THEN <<>>
  ELSE LET init == Dedup(SubSeq(list, 1, Len(list) - 1))
           last == list[Len(list)]
       IN IF \E i \in 1..Len(init) : init[i] = last THEN init
          ELSE Append(init, last)

(***************************************************************************)
(* WorkflowAnalyzer.isLocalAction                                          *)
(***************************************************************************)
IsLocalActionDotPrefix(actionRef) ==
  IF ~Truthy(actionRef) \/ ~IsString(actionRef) THEN FALSE
  ELSE StartsWith(actionRef.s, <<".">>)

isLocalAction(actionRef) ==
  IF ~Truthy(actionRef) \/ ~IsString(actionRef) THEN FALSE
  ELSE StartsWith(actionRef.s, <<".", "/">>) \/ actionRef.s = <<".">>

(***************************************************************************)
(* Workflow texts.  A text is modelled by what yaml.load makes of it: the  *)
(* empty string, a text the parser rejects, or a text that loads to a      *)
(* document.                                                               *)
(***************************************************************************)
EmptyText == [text |-> "empty"]
InvalidText == [text |-> "invalid", message |-> "YAMLException: bad indentation of a mapping entry"]
DocText(d) == [text |-> "document", doc |-> d]

\* Documents: a mapping with a jobs entry; jobs maps names to jobs in
\* declaration order; a job has a steps entry; a step has name and uses.
Workflow(jobs) == [t |-> "workflow", jobs |-> jobs]
JobsMap(entries) == [t |-> "jobs", entries |-> entries]
Entry(key, val) == [key |-> key, val |-> val]
Job(steps) == [t |-> "job", steps |-> steps]
StepList(items) == [t |-> "steps", items |-> items]
Step(name, uses) == [t |-> "step", name |-> name, uses |-> uses]

\* yaml.load(workflowContent): the loaded value, or the exception it throws.
YamlLoad(text) ==
  CASE text.text = "empty" -> [ok |-> TRUE, value |-> Undef]
    [] text.text = "invalid" -> [ok |-> FALSE, message |-> text.message]
    [] OTHER -> [ok |-> TRUE, value |-> text.doc]

\* Property reads of the analyzer on loaded values (undefined on a scalar).
WorkflowJobs(workflow) == IF workflow.t = "workflow" THEN workflow.jobs ELSE Undef
JobSteps(job) == IF job.t = "job" THEN job.steps ELSE Undef
StepName(step) == IF step.t = "step" THEN step.name ELSE Undef
StepUses(step) == IF step.t = "step" THEN step.uses ELSE Undef

\* A property read on null or undefined throws a TypeError.
IsNullish(v) == v.t = "null" \/ v.t = "undefined"
TypeErrorReading(prop) == "Cannot read properties of null (reading '" \o prop \o "')"

\* Array.isArray
IsArray(v) == v.t = "steps" \/ v.t = "array"

\* A canonical array index (the keys Object.entries lists first): decimal
\* digits without a leading zero; the names drawn here are far below 2^32 - 1.
IsArrayIndex(key) ==
  /\ key # <<>>
  /\ \A i \in 1..Len(key) : IsDigit(key[i])
  /\ (Len(key) > 1 => key[1] # "0")
  /\ Len(key) <= 9

\* The positions of `entries` in ascending order of f.
RECURSIVE SortedBy(_, _)
SortedBy(S, f) ==
  IF S = {} THEN <<>>
  ELSE LET m == CHOOSE i \in S : \A j \in S : f[i] <= f[j]
       IN <<m>> \o SortedBy(S \ {m}, f)

\* Object.entries(workflow.jobs): integer-like keys in ascending numeric
\* order, then the other keys in insertion order.
ObjectEntries(obj) ==
  IF obj.t # "jobs" THEN <<>>
  ELSE LET e == obj.entries
           ints == {i \in 1..Len(e) : IsArrayIndex(e[i].key)}
           rest == (1..Len(e)) \ ints
           val == [i \in ints |-> ParseInt(e[i].key)]
           pos == [i \in rest |-> i]
           order == SortedBy(ints, val) \o SortedBy(rest, pos)
       IN [k \in 1..Len(e) |-> e[order[k]]]

\* The decimal digits of a natural number, as characters.
RECURSIVE DecimalChars(_)
DecimalChars(n) ==
  IF n < 10 THEN <<Digits[n + 1]>>
  ELSE DecimalChars(n \div 10) \o <<Digits[(n % 10) + 1]>>

StepLabelZeroBased(stepIndex) == StrV(<<"S", "t", "e", "p", " ">> \o DecimalChars(stepIndex))

\* `Step ${stepIndex + 1}`
StepLabel(stepIndex) == StrV(<<"S", "t", "e", "p", " ">> \o DecimalChars(stepIndex + 1))

(***************************************************************************)
(* WorkflowAnalyzer.analyzeWorkflow                                        *)
(***************************************************************************)
NewResult == [hasLocalActions |-> FALSE, localActions |-> <<>>, totalSteps |-> 0,
              jobs |-> <<>>, error |-> <<>>]

ErrorResult(message) == [hasLocalActions |-> FALSE, localActions |-> <<>>,
                         totalSteps |-> 0, jobs |-> <<>>, error |-> <<message>>]

\* The step body without the assignment jobResult.hasLocalActions = true.
StepBodyJobFlagUnset(acc, step, stepIndex) ==
  IF acc.thrown # <<>> THEN acc
  ELSE IF IsNullish(step)
  THEN [acc EXCEPT !.thrown = <<TypeErrorReading("name")>>,
                   !.result.totalSteps = @ + 1]
  ELSE LET uses == StepUses(step)
           local == Truthy(uses) /\ isLocalAction(uses)
           stepResult == [index |-> stepIndex,
                          name |-> IF Truthy(StepName(step)) THEN StepName(step)
                                   ELSE StepLabel(stepIndex),
                          hasLocalAction |-> local,
                          actionPath |-> IF Truthy(uses) THEN uses ELSE Null]
       IN [acc EXCEPT
             !.result.totalSteps = @ + 1,
             !.result.hasLocalActions = IF local THEN TRUE ELSE @,
             !.result.localActions = IF local THEN Append(@, uses) ELSE @,
             !.jobResult.localActions = IF local THEN Append(@, uses) ELSE @,
             !.jobResult.steps = Append(@, stepResult)]

\* The body of job.steps.forEach for the step at 0-based stepIndex: acc holds
\* result, jobResult and the exception thrown so far (none: <<>>).
StepBody(acc, step, stepIndex) ==
  IF acc.thrown # <<>> THEN acc
  ELSE IF IsNullish(step)
  THEN [acc EXCEPT !.thrown = <<TypeErrorReading("name")>>,
                   !.result.totalSteps = @ + 1]
  ELSE LET uses == StepUses(step)
           local == Truthy(uses) /\ isLocalAction(uses)
           stepResult == [index |-> stepIndex,
                          name |-> IF Truthy(StepName(step)) THEN StepName(step)
                                   ELSE StepLabel(stepIndex),
                          hasLocalAction |-> local,
                          actionPath |-> IF Truthy(uses) THEN uses ELSE Null]
       IN [acc EXCEPT
             !.result.totalSteps = @ + 1,
             !.result.hasLocalActions = IF local THEN TRUE ELSE @,
             !.result.localActions = IF local THEN Append(@, uses) ELSE @,
             !.jobResult.hasLocalActions = IF local THEN TRUE ELSE @,
             !.jobResult.localActions = IF local THEN Append(@, uses) ELSE @,
             !.jobResult.steps = Append(@, stepResult)]

RECURSIVE StepsLoop(_, _, _)
StepsLoop(acc, items, k) ==
  IF k > Len(items) THEN acc
  ELSE StepsLoop(StepBody(acc, items[k], k - 1), items, k + 1)

\* The body of Object.entries(workflow.jobs).forEach for one [jobName, job].
JobBody(acc, entry) ==
  IF acc.thrown # <<>> THEN acc
  ELSE IF IsNullish(entry.val)
  THEN [acc EXCEPT !.thrown = <<TypeErrorReading("steps")>>]
  ELSE LET steps == JobSteps(entry.val)
           fresh == [acc EXCEPT !.jobResult =
                       [name |-> entry.key, hasLocalActions |-> FALSE,
                        localActions |-> <<>>, steps |-> <<>>]]
           done == IF Truthy(steps) /\ IsArray(steps)
                   THEN StepsLoop(fresh, steps.items, 1)
                   ELSE fresh
       IN IF done.thrown # <<>> THEN done
          ELSE [done EXCEPT !.result.jobs = Append(@, done.jobResult)]

RECURSIVE JobsLoop(_, _, _)
JobsLoop(acc, entries, k) ==
  IF k > Len(entries) THEN acc
  ELSE JobsLoop(JobBody(acc, entries[k]), entries, k + 1)

analyzeWorkflowPartialOnError(workflowContent) ==
  LET loaded == YamlLoad(workflowContent)
  IN IF ~loaded.ok THEN ErrorResult(loaded.message)
     ELSE LET workflow == loaded.value
          IN IF ~Truthy(workflow) \/ ~Truthy(WorkflowJobs(workflow)) THEN NewResult
             ELSE LET start == [result |-> NewResult, jobResult |-> Null, thrown |-> <<>>]
                      end == JobsLoop(start, ObjectEntries(WorkflowJobs(workflow)), 1)
                  IN IF end.thrown # <<>> THEN [end.result EXCEPT !.error = end.thrown]
                     ELSE [end.result EXCEPT !.localActions = Dedup(@)]

analyzeWorkflow(workflowContent) ==
  LET loaded == YamlLoad(workflowContent)
  IN IF ~loaded.ok THEN ErrorResult(loaded.message)
     ELSE LET workflow == loaded.value
          IN IF ~Truthy(workflow) \/ ~Truthy(WorkflowJobs(workflow)) THEN NewResult
             ELSE LET start == [result |-> NewResult, jobResult |-> Null, thrown |-> <<>>]
                      end == JobsLoop(start, ObjectEntries(WorkflowJobs(workflow)), 1)
                  IN IF end.thrown # <<>> THEN ErrorResult(end.thrown[1])
                     ELSE [end.result EXCEPT !.localActions = Dedup(@)]

(***************************************************************************)
(* WorkflowAnalyzer.getActionDetails                                       *)
(***************************************************************************)
DockerPrefix == <<"d", "o", "c", "k", "e", "r", ":", "/", "/">>

\* The if / else-if chain that routes one truthy step.actionPath; calling
\* startsWith on a value that is no string throws a TypeError.
BucketExternalFirst(actionPath) ==
  IF isLocalAction(actionPath) THEN "local"
  ELSE IF ~IsString(actionPath) THEN "TypeError"
  ELSE IF Includes(actionPath.s, <<"/">>) THEN "external"
  ELSE IF StartsWith(actionPath.s, DockerPrefix) THEN "docker"
  ELSE "marketplace"

Bucket(actionPath) ==
  IF isLocalAction(actionPath) THEN "local"
  ELSE IF ~IsString(actionPath) THEN "TypeError"
  ELSE IF StartsWith(actionPath.s, DockerPrefix) THEN "docker"
  ELSE IF Includes(actionPath.s, <<"/">>) THEN "external"
  ELSE "marketplace"

NoActions == [local |-> <<>>, external |-> <<>>, marketplace |-> <<>>, docker |-> <<>>]

\* The body of job.steps.forEach in getActionDetails.
DetailStepBody(acc, job, step) ==
  IF acc.thrown # <<>> \/ ~Truthy(step.actionPath) THEN acc
  ELSE LET actionInfo == [path |-> step.actionPath, jobName |-> job.name,
                          stepName |-> step.name, stepIndex |-> step.index]
           bucket == Bucket(step.actionPath)
       IN IF bucket = "TypeError"
          THEN [acc EXCEPT !.thrown = <<"step.actionPath.startsWith is not a function">>]
          ELSE [acc EXCEPT !.actions[bucket] = Append(@, actionInfo)]

RECURSIVE DetailStepsLoop(_, _, _)
DetailStepsLoop(acc, job, k) ==
  IF k > Len(job.steps) THEN acc
  ELSE DetailStepsLoop(DetailStepBody(acc, job, job.steps[k]), job, k + 1)

RECURSIVE DetailJobsLoop(_, _, _)
DetailJobsLoop(acc, jobs, k) ==
  IF k > Len(jobs) THEN acc
  ELSE DetailJobsLoop(DetailStepsLoop(acc, jobs[k], 1), jobs, k + 1)

\* The value returned: the error report itself, or the report with
\* actionBreakdown and summary; or the exception that escapes.
getActionDetails(workflowContent) ==
  LET analysis == analyzeWorkflow(workflowContent)
  IN IF analysis.error # <<>> /\ analysis.error[1] # ""
     THEN [kind |-> "report", analysis |-> analysis]
     ELSE LET end == DetailJobsLoop([actions |-> NoActions, thrown |-> <<>>],
                                    analysis.jobs, 1)
              actions == end.actions
          IN IF end.thrown # <<>>
             THEN [kind |-> "throw", message |-> end.thrown[1]]
             ELSE [kind |-> "details",
                   analysis |-> analysis,
                   actionBreakdown |-> actions,
                   summary |->
                     [totalActions |-> Len(actions.local) + Len(actions.external)
                                       + Len(actions.marketplace) + Len(actions.docker),
                      localCount |-> Len(actions.local),
                      externalCount |-> Len(actions.external),
                      marketplaceCount |-> Len(actions.marketplace),
                      dockerCount |-> Len(actions.docker)]]

(***************************************************************************)
(* Inputs of the analyzer.                                                 *)
(***************************************************************************)
RefAlphabet == {".", "/", "a"}
RefStrings == UNION {[1..n -> RefAlphabet] : n \in 0..MaxRefLen}
\* References around the docker:// prefix: the whole prefix or a part of it,
\* bare or followed by one more character, and the prefix not at the start.
DockerLike ==
  {SubSeq(DockerPrefix, 1, k) \o tail :
     k \in 6..9, tail \in {<<>>, <<"a">>, <<"/">>}}
  \cup {<<"a">> \o DockerPrefix \o <<"a">>, <<".">> \o DockerPrefix}
RefValues ==
  {Undef, Null, Num(0), Num(123), Bool(TRUE), Bool(FALSE), ListV, MapV}
  \cup {StrV(s) : s \in RefStrings \cup DockerLike}

A == StrV(<<".", "/", "a">>)
B == StrV(<<".", "/", "b">>)
StepPool ==
  { Step(Undef, A),
    Step(StrV(<<"n">>), A),
    Step(StrV(<<"m">>), B),
    Step(Undef, StrV(<<".">>)),
    Step(StrV(<<"c">>), StrV(<<"a", "/", "b">>)),
    Step(Undef, StrV(DockerPrefix \o <<"a">>)),
    Step(Undef, StrV(<<"a">>)),
    Step(StrV(<<"r">>), Undef),
    Step(Undef, Num(123)),
    Null }

JobNames == {<<"b", "u", "i", "l", "d">>, <<"2">>}

\* Jobs with exactly k steps drawn from pool; with no step: a job with no
\* body, a job without steps, a job whose steps are no list, an empty list.
JobsWith(pool, k) ==
  IF k = 0
  THEN {Null, Job(Undef), Job(StrV(<<"x">>)), Job(StepList(<<>>))}
  ELSE {Job(StepList(items)) : items \in [1..k -> pool]}

\* The jobs mappings over names with at most max steps in all.
JobsMaps(names, pool, max) ==
  {JobsMap(<<>>)}
  \cup UNION {{JobsMap(<<Entry(n, j)>>) : n \in names, j \in JobsWith(pool, k)} :
               k \in 0..max}
  \cup UNION {UNION {
         {JobsMap(<<Entry(n[1], j1), Entry(n[2], j2)>>) :
            n \in {p \in names \X names : p[1] # p[2]},
            j1 \in JobsWith(pool, k1), j2 \in JobsWith(pool, k2)} :
         k2 \in 0..(max - k1)} : k1 \in 0..max}

Texts(names, pool, max) ==
  {EmptyText, InvalidText, DocText(Null), DocText(StrV(<<"a">>)),
   DocText(Workflow(Undef)), DocText(Workflow(Null))}
  \cup {DocText(Workflow(jobs)) : jobs \in JobsMaps(names, pool, max)}

\* What a step's name entry can hold: nothing, a falsy value, a string or
\* another truthy scalar.
NameValues ==
  {Undef, Null, StrV(<<>>), Num(0), Bool(FALSE), StrV(<<"n">>), Num(7), Bool(TRUE)}

\* One-job workflows of two steps with every pair of names.
NamedStepTexts ==
  {DocText(Workflow(JobsMap(<<Entry(<<"b", "u", "i", "l", "d">>,
                                    Job(StepList(<<Step(n1, A),
                                                   Step(n2, StrV(<<"a", "/", "b">>))>>)))>>))) :
     n1 \in NameValues, n2 \in NameValues}

\* The one-job, one-step workflow whose step uses `uses`.
SingleStepText(uses) ==
  DocText(Workflow(JobsMap(<<Entry(<<"b", "u", "i", "l", "d">>,
                                   Job(StepList(<<Step(Undef, uses)>>)))>>)))

(***************************************************************************)
(* Inputs of the webhook handler.                                          *)
(***************************************************************************)
Requests == {1, 2}

\* The payload of request r.  An id the payload lacks is 0: the handler only
\* tests ids with `!id` and `if (id)`, which undefined and 0 both fail.
Payload(r, installationId, deploymentId, callbackUrl) ==
  [repository |-> [owner |-> [login |-> <<"owner", r>>], name |-> <<"repo", r>>],
   environment |-> <<"env", r>>,
   installation |-> [id |-> installationId],
   deployment |-> [id |-> deploymentId],
   deployment_callback_url |-> callbackUrl,
   _workflowRunId |-> 0]

\* Callback URLs, as the pieces the handler's regular expression tells
\* apart: literal path segments and single characters.  <<>> is no URL.
RunsSegment == "/actions/runs/"
RuleSegment == "/deployment_protection_rule"
CallbackUrl(digits) ==
  <<"https://api.github.com/repos/o/r", RunsSegment>> \o digits \o <<RuleSegment>>
CallbackUrls ==
  { <<>>,
    CallbackUrl(<<"7", "1">>),
    CallbackUrl(<<"7", "3">>),
    CallbackUrl(<<"0">>),
    CallbackUrl(<<>>),
    <<"https://api.github.com/repos/o/r", "/deployments/", "5">> }

\* ALLOW_LOCAL_ACTIONS in process.env: unset (<<>>) or a string.
EnvValues == {<<>>, <<"true">>, <<"false">>, <<"TRUE">>}

\* What the remote API answers.
DeploymentData == [id |-> 5, sha |-> "sha1", ref |-> "main", environment |-> "production"]
WorkflowPath == ".github/workflows/deploy.yml"
DynamicPath == "dynamic/github-code-scanning/codeql"
RunPool ==
  { [id |-> 71, name |-> "Deploy", path |-> WorkflowPath, head_sha |-> "sha1"],
    [id |-> 72, name |-> "CodeQL", path |-> DynamicPath, head_sha |-> "sha1"] }
\* per_page of the run listing: the API returns at most that many runs.
PerPage == 1
RunLists == UNION {[1..n -> RunPool] : n \in 0..PerPage}

FetchedJobNames == {<<"b", "u", "i", "l", "d">>}
FetchedStepPool ==
  { Step(Undef, A), Step(StrV(<<"m">>), B), Step(Undef, StrV(<<"a", "/", "b">>)), Null }
FetchedTexts == Texts(FetchedJobNames, FetchedStepPool, MaxFetchedSteps)

\* fileContent.data.content: the base64 text of a file, or nothing (the path
\* is a directory).
Base64(text) == [t |-> "base64", of |-> text]
ContentData == {Undef} \cup {Base64(text) : text \in FetchedTexts}

\* Buffer.from(content, 'base64').toString('utf8'); Buffer.from(undefined)
\* throws a TypeError.
DecodeLenient(content) ==
  [ok |-> TRUE, value |-> IF content.t = "undefined" THEN InvalidText ELSE content.of]

Decode(content) ==
  IF content.t = "undefined" THEN [ok |-> FALSE] ELSE [ok |-> TRUE, value |-> content.of]
IsEmptyStringNever(text) == FALSE

\* !workflowContent
IsEmptyString(text) == text.text = "empty"

(***************************************************************************)
(* cli.js: main.                                                           *)
(***************************************************************************)
\* What the command line names: no argument, a path where no file is, or a
\* file with a workflow text.
NoArgument == [text |-> "no argument"]
MissingFile == [text |-> "file not found"]
CliFiles ==
  { NoArgument, MissingFile, InvalidText,
    DocText(Workflow(JobsMap(<<Entry(<<"b", "u", "i", "l", "d">>,
                                     Job(StepList(<<Step(Undef, A),
                                                    Step(StrV(<<"m">>), B)>>)))>>))),
    SingleStepText(StrV(<<"a", "/", "b">>)),
    SingleStepText(Num(123)),
    DocText(Workflow(JobsMap(<<Entry(<<"b", "u", "i", "l", "d">>,
                                     Job(StepList(<<Step(Undef, A),
                                                    Step(Undef, Num(123))>>)))>>))) }

\* process.env.ALLOW_LOCAL_ACTIONS === 'true' (cli.js)
allowLocalActions(value) == value = <<"true">>

\* The process's exit code and the decision it printed, if it got that far.
CliExit(code) == [exit |-> code, decision |-> <<>>, reason |-> <<>>]
CliDecision(decision, reason) == [exit |-> 0, decision |-> <<decision>>, reason |-> <<reason>>]

main(file, value) ==
  IF file = NoArgument \/ file = MissingFile THEN CliExit(1)
  ELSE LET result == getActionDetails(file)
       IN IF result.kind = "throw" \/ result.kind = "report" THEN CliExit(1)
          ELSE IF result.analysis.hasLocalActions /\ ~allowLocalActions(value)
          THEN CliDecision("DEPLOYMENT WOULD BE REJECTED",
                           "Local actions detected and ALLOW_LOCAL_ACTIONS is not set to true")
          ELSE IF result.analysis.hasLocalActions /\ allowLocalActions(value)
          THEN CliDecision("DEPLOYMENT WOULD BE APPROVED",
                           "Local actions detected but ALLOW_LOCAL_ACTIONS is set to true")
          ELSE CliDecision("DEPLOYMENT WOULD BE APPROVED", "No local actions detected")

(***************************************************************************)
(* State.                                                                  *)
(***************************************************************************)
VARIABLES
  input,    \* the workflow text handed to the analyzer, or the CLI's file
  ref,      \* the action reference handed to isLocalAction
  out,      \* what the analyzer's methods and the CLI returned, <<>> until called
  env,      \* process.env.ALLOW_LOCAL_ACTIONS
  analyzers,   \* per WorkflowAnalyzer instance: the values of its fields
  invocations, \* the calls of analyzeWorkflow made on the instances, in order
  live,     \* the requests the webhook handler was invoked for
  remote,   \* per request: what its repository may answer a content request with
  req       \* per request: the handler's position and its local variables

avars == <<input, ref, out, analyzers, invocations>>
hvars == <<env, live, remote, req>>
vars == <<input, ref, out, analyzers, invocations, env, live, remote, req>>

NoOutput == [isLocal |-> <<>>, analysis |-> <<>>, details |-> <<>>, cli |-> <<>>]

\* The handler's variables before it starts on a payload.
NewRequest(payload) ==
  [pc |-> "Received",
   payload |-> payload,
   installation |-> Null,
   deployment |-> Null,
   workflowRun |-> Null,
   workflowContent |-> Null,
   analysisResult |-> Null,
   verdict |-> Null,  \* the pending call of approveDeployment or rejectDeployment
   verdictCalls |-> 0, \* how often approveDeployment or rejectDeployment ran
   calls |-> <<>>,    \* the remote calls made so far, each with its response
   error |-> <<>>]

IdleRequest(r) == [NewRequest(Payload(r, 0, 0, <<>>)) EXCEPT !.pc = "Idle"]

\* The instances the tests and the programs construct, and the fields of a
\* new instance: the class declares no constructor and no field.
Instances == {1, 2}
NewAnalyzer == <<>>
NoAnalyzers == [i \in Instances |-> NewAnalyzer]

InitAnalyzer ==
  /\ analyzers = NoAnalyzers
  /\ invocations = <<>>
  /\ env = <<>>
  /\ live = {}
  /\ remote = [r \in Requests |-> {}]
  /\ req = [r \in Requests |-> IdleRequest(r)]
  /\ out = NoOutput
  /\ \/ /\ input \in Texts(JobNames, StepPool, MaxSteps)
        /\ ref = Undef
     \/ /\ ref \in RefValues
        /\ input = SingleStepText(ref)
     \/ /\ input \in NamedStepTexts
        /\ ref = Undef

\* analyzer.isLocalAction(ref)
IsLocalActionCall ==
  /\ out.isLocal = <<>>
  /\ out' = [out EXCEPT !.isLocal = <<isLocalAction(ref)>>]
  /\ UNCHANGED <<input, ref, analyzers, invocations, hvars>>

\* analyzer.analyzeWorkflow(input)
AnalyzeWorkflowCall ==
  /\ out.analysis = <<>>
  /\ out' = [out EXCEPT !.analysis = <<analyzeWorkflow(input)>>]
  /\ UNCHANGED <<input, ref, analyzers, invocations, hvars>>

\* analyzer.getActionDetails(input)
GetActionDetailsCall ==
  /\ out.details = <<>>
  /\ out' = [out EXCEPT !.details = <<getActionDetails(input)>>]
  /\ UNCHANGED <<input, ref, analyzers, invocations, hvars>>

NextAnalyzer ==
  \/ IsLocalActionCall
  \/ AnalyzeWorkflowCall
  \/ GetActionDetailsCall

SpecAnalyzer == InitAnalyzer /\ [][NextAnalyzer]_vars

(***************************************************************************)
(* Repeated calls of analyzeWorkflow on analyzer instances.                *)
(***************************************************************************)
RepeatTexts ==
  { EmptyText, InvalidText,
    SingleStepText(StrV(<<"a", "/", "b">>)),
    DocText(Workflow(JobsMap(<<Entry(<<"b", "u", "i", "l", "d">>,
                                     Job(StepList(<<Step(Undef, A),
                                                    Step(StrV(<<"m">>), B)>>)))>>))),
    DocText(Workflow(JobsMap(<<Entry(<<"b", "u", "i", "l", "d">>,
                                     Job(StepList(<<Step(Undef, A), Null>>)))>>))) }

\* The sum of totalSteps over the reports kept in self.
RECURSIVE StepsSoFar(_)
StepsSoFar(self) ==
  IF self = <<>> THEN 0 ELSE Head(self).totalSteps + StepsSoFar(Tail(self))

InvokeAccumulating(self, text) ==
  LET report == [analyzeWorkflow(text) EXCEPT !.totalSteps = @ + StepsSoFar(self)]
  IN [self |-> Append(self, analyzeWorkflow(text)), report |-> report]

\* self.analyzeWorkflow(text): the method builds its result in a local
\* object and reads and writes no field of the instance.
Invoke(self, text) == [self |-> self, report |-> analyzeWorkflow(text)]

InitRepeat ==
  /\ analyzers = NoAnalyzers
  /\ invocations = <<>>
  /\ input = EmptyText
  /\ ref = Undef
  /\ out = NoOutput
  /\ env = <<>>
  /\ live = {}
  /\ remote = [r \in Requests |-> {}]
  /\ req = [r \in Requests |-> IdleRequest(r)]

\* analyzer.analyzeWorkflow(text) on instance i.
AnalyzeOn(i, text) ==
  /\ Len(invocations) < MaxCalls
  /\ LET call == Invoke(analyzers[i], text)
     IN /\ analyzers' = [analyzers EXCEPT ![i] = call.self]
        /\ invocations' = Append(invocations, [instance |-> i, text |-> text,
                                               report |-> call.report])
  /\ UNCHANGED <<input, ref, out, hvars>>

NextRepeat == \E i \in Instances, text \in RepeatTexts : AnalyzeOn(i, text)

SpecRepeat == InitRepeat /\ [][NextRepeat]_vars

(***************************************************************************)
(* The deployment_protection_rule.requested handler.                       *)
(***************************************************************************)
SetSharingRunId(r, changes) ==
  [q \in DOMAIN req |->
     IF q = r
     THEN [f \in DOMAIN req[r] |->
             IF f \in DOMAIN changes THEN changes[f] ELSE req[r][f]]
     ELSE IF "payload" \in DOMAIN changes
     THEN [req[q] EXCEPT !.payload._workflowRunId = changes.payload._workflowRunId]
     ELSE req[q]]

\* The request's record with some of its fields changed.
Set(r, changes) ==
  [req EXCEPT ![r] = [f \in DOMAIN req[r] |->
                        IF f \in DOMAIN changes THEN changes[f] ELSE req[r][f]]]

\* A remote call with the way it ended: it failed (the request threw), or
\* the API answered with data.
Failed(call) == call @@ [ok |-> FALSE]
Answered(call, data) == call @@ [ok |-> TRUE, data |-> data]

Octokit(installationId) == [t |-> "octokit", id |-> installationId, request |-> TRUE]

InvalidInstallationNever(installation) == FALSE

\* !installation || !installation.request
InvalidInstallation(installation) == installation.t # "octokit" \/ ~installation.request

\* The digits captured by the leftmost match of
\* /\/actions\/runs\/(\d+)\/deployment_protection_rule/ in url; <<>> if none.
RegexMatch(url) ==
  LET matches == {m \in (1..Len(url)) \X (1..Len(url)) :
                    /\ m[1] + 1 < m[2]
                    /\ url[m[1]] = RunsSegment
                    /\ \A k \in (m[1] + 1)..(m[2] - 1) : IsDigit(url[k])
                    /\ url[m[2]] = RuleSegment}
  IN IF matches = {} THEN <<>>
     ELSE LET m == CHOOSE x \in matches : \A y \in matches : x[1] <= y[1]
          IN SubSeq(url, m[1] + 1, m[2] - 1)

getWorkflowRunIdCallbackFirst(payload) ==
  IF payload.deployment_callback_url # <<>>
     /\ RegexMatch(payload.deployment_callback_url) # <<>>
  THEN ParseInt(RegexMatch(payload.deployment_callback_url))
  ELSE IF payload._workflowRunId # 0 THEN payload._workflowRunId
  ELSE payload.deployment.id

\* The run id taken from the deployment alone.
getWorkflowRunIdFromDeployment(payload) == payload.deployment.id

getWorkflowRunIdFromPayload(payload) ==
  IF payload._workflowRunId # 0 THEN payload._workflowRunId
  ELSE IF payload.deployment_callback_url # <<>>
          /\ RegexMatch(payload.deployment_callback_url) # <<>>
  THEN ParseInt(RegexMatch(payload.deployment_callback_url))
  ELSE payload.deployment.id

ShouldAllowAnyCase(value) == value \in {<<"true">>, <<"TRUE">>}

\* process.env.ALLOW_LOCAL_ACTIONS === 'true'
ShouldAllow(value) == value = <<"true">>

\* The calls of rejectDeployment and approveDeployment the handler makes,
\* with their arguments.
RejectCall(installation, reason) ==
  [fn |-> "rejectDeployment", installation |-> installation, reason |-> reason]
ApproveCall(installation, analysisResult) ==
  [fn |-> "approveDeployment", installation |-> installation,
   analysisResult |-> analysisResult]

DecisionFirstActionOnly(installation, analysisResult, shouldAllow) ==
  IF analysisResult.hasLocalActions /\ ~shouldAllow
  THEN RejectCall(installation,
                  "Deployment rejected: Workflow uses local actions: "
                    \o Str(analysisResult.localActions[1].s))
  ELSE ApproveCall(installation, analysisResult)

DecisionRejectUnlessAllowed(installation, analysisResult, shouldAllow) ==
  IF ~shouldAllow
  THEN RejectCall(installation,
                  "Deployment rejected: Workflow uses local actions: "
                    \o Join(analysisResult.localActions, ", "))
  ELSE ApproveCall(installation, analysisResult)

\* The handler's if / else on the analysis result.
Decision(installation, analysisResult, shouldAllow) ==
  IF analysisResult.hasLocalActions /\ ~shouldAllow
  THEN RejectCall(installation,
                  "Deployment rejected: Workflow uses local actions: "
                    \o Join(analysisResult.localActions, ", "))
  ELSE ApproveCall(installation, analysisResult)

ApproveMessageWithoutList(analysisResult) ==
  IF analysisResult.hasLocalActions
  THEN "Deployment approved despite local actions"
  ELSE "Deployment approved: No local actions detected"

\* The comment approveDeployment submits.
ApproveMessage(analysisResult) ==
  IF analysisResult.hasLocalActions
  THEN "Deployment approved despite local actions: "
         \o Join(analysisResult.localActions, ", ")
  ELSE "Deployment approved: No local actions detected"

\* The request approveDeployment or rejectDeployment posts for call.
Submission(payload, runId, call) ==
  [op |-> "POST deployment_protection_rule",
   owner |-> payload.repository.owner.login,
   repo |-> payload.repository.name,
   run_id |-> runId,
   environment_name |-> payload.environment,
   state |-> IF call.fn = "approveDeployment" THEN "approved" ELSE "rejected",
   comment |-> IF call.fn = "approveDeployment"
               THEN ApproveMessage(call.analysisResult) ELSE call.reason]

NoInstallationIdNever(payload) == FALSE

\* !payload.installation?.id
NoInstallationId(payload) == payload.installation.id = 0

NoDeploymentIdNever(payload) == FALSE

\* !payload.deployment?.id
NoDeploymentId(payload) == payload.deployment.id = 0

\* Entry: without an installation id the handler rejects with no client.
Receive(r) ==
  /\ req[r].pc = "Received"
  /\ IF NoInstallationId(req[r].payload)
     THEN req' = Set(r, [pc |-> "Submitting",
                         verdict |-> RejectCall(Null, "No installation ID found")])
     ELSE req' = Set(r, [pc |-> "Authenticating"])
  /\ UNCHANGED <<avars, env, live, remote>>

\* await githubApp.getInstallationOctokit(payload.installation.id): the
\* client, or an exception, which the handler's catch block receives.
Authenticate(r) ==
  /\ req[r].pc = "Authenticating"
  /\ \E ok \in BOOLEAN :
       IF ok
       THEN req' = Set(r, [pc |-> "ResolvingDeployment",
                           installation |-> Octokit(req[r].payload.installation.id)])
       ELSE req' = Set(r, [pc |-> "Catch",
                           error |-> <<"getInstallationOctokit failed">>])
  /\ UNCHANGED <<avars, env, live, remote>>

\* The catch block: `installation` is declared by const inside the try
\* block, so reading it here throws a ReferenceError out of the handler.
Catch(r) ==
  /\ req[r].pc = "Catch"
  /\ req' = Set(r, [pc |-> "Failed",
                    error |-> <<"ReferenceError: installation is not defined">>])
  /\ UNCHANGED <<avars, env, live, remote>>

\* getWorkflowRun up to the deployment lookup; null makes the handler reject.
ResolveDeployment(r) ==
  /\ req[r].pc = "ResolvingDeployment"
  /\ LET rejected == [pc |-> "Submitting",
                      verdict |-> RejectCall(req[r].installation,
                                             "Could not analyze workflow")]
         call == [op |-> "GET deployment",
                  owner |-> req[r].payload.repository.owner.login,
                  repo |-> req[r].payload.repository.name,
                  deployment_id |-> req[r].payload.deployment.id]
     IN IF InvalidInstallation(req[r].installation) \/ NoDeploymentId(req[r].payload)
        THEN req' = Set(r, rejected)
        ELSE \/ req' = Set(r, rejected @@ [calls |-> Append(req[r].calls, Failed(call))])
             \/ req' = Set(r, [pc |-> "ResolvingWorkflowRun",
                               deployment |-> DeploymentData,
                               calls |-> Append(req[r].calls,
                                                Answered(call, DeploymentData))])
  /\ UNCHANGED <<avars, env, live, remote>>

ListRunsEarly(r) ==
  /\ req[r].pc \in {"ResolvingDeployment", "ResolvingWorkflowRun"}
  /\ LET call == [op |-> "GET runs",
                  owner |-> req[r].payload.repository.owner.login,
                  repo |-> req[r].payload.repository.name,
                  head_sha |-> "sha1",
                  per_page |-> PerPage]
         rejected == [pc |-> "Submitting",
                      verdict |-> RejectCall(req[r].installation,
                                             "Could not analyze workflow")]
     IN \/ req' = Set(r, rejected @@ [calls |-> Append(req[r].calls, Failed(call))])
        \/ \E runs \in RunLists :
             IF Len(runs) = 0
             THEN req' = Set(r, rejected
                                @@ [calls |-> Append(req[r].calls, Answered(call, runs))])
             ELSE req' = Set(r, [pc |-> "FetchingContent",
                                 calls |-> Append(req[r].calls, Answered(call, runs)),
                                 workflowRun |-> runs[1],
                                 payload |-> [req[r].payload EXCEPT
                                                !._workflowRunId = runs[1].id]])
  /\ UNCHANGED <<avars, env, live, remote>>

\* getWorkflowRun from the run listing on, and the handler storing the id.
ListRuns(r) ==
  /\ req[r].pc = "ResolvingWorkflowRun"
  /\ LET call == [op |-> "GET runs",
                  owner |-> req[r].payload.repository.owner.login,
                  repo |-> req[r].payload.repository.name,
                  head_sha |-> req[r].deployment.sha,
                  per_page |-> PerPage]
         rejected == [pc |-> "Submitting",
                      verdict |-> RejectCall(req[r].installation,
                                             "Could not analyze workflow")]
     IN \/ req' = Set(r, rejected @@ [calls |-> Append(req[r].calls, Failed(call))])
        \/ \E runs \in RunLists :
             IF Len(runs) = 0
             THEN req' = Set(r, rejected
                                @@ [calls |-> Append(req[r].calls, Answered(call, runs))])
             ELSE req' = Set(r, [pc |-> "FetchingContent",
                                 calls |-> Append(req[r].calls, Answered(call, runs)),
                                 workflowRun |-> runs[1],
                                 payload |-> [req[r].payload EXCEPT
                                                !._workflowRunId = runs[1].id]])
  /\ UNCHANGED <<avars, env, live, remote>>

\* The content request of getWorkflowContent sent at the deployment's ref.
ContentRequestAtDeploymentRef(payload, workflowRun) ==
  [op |-> "GET contents",
   owner |-> payload.repository.owner.login,
   repo |-> payload.repository.name,
   path |-> workflowRun.path,
   ref |-> DeploymentData.ref]

\* The content request of getWorkflowContent: the file at the run's path, at
\* the run's head commit.
ContentRequest(payload, workflowRun) ==
  [op |-> "GET contents",
   owner |-> payload.repository.owner.login,
   repo |-> payload.repository.name,
   path |-> workflowRun.path,
   ref |-> workflowRun.head_sha]

\* getWorkflowContent, and the handler's test of what it returned.
FetchContent(r) ==
  /\ req[r].pc = "FetchingContent"
  /\ LET call == ContentRequest(req[r].payload, req[r].workflowRun)
         rejected == [pc |-> "Submitting",
                      verdict |-> RejectCall(req[r].installation,
                                             "Could not fetch workflow file")]
     IN \/ req' = Set(r, rejected @@ [calls |-> Append(req[r].calls, Failed(call))])
        \/ \E content \in remote[r] :
             LET decoded == Decode(content)
                 calls == Append(req[r].calls, Answered(call, content))
             IN IF ~decoded.ok \/ IsEmptyString(decoded.value)
                THEN req' = Set(r, rejected @@ [calls |-> calls])
                ELSE req' = Set(r, [pc |-> "Analyzing", calls |-> calls,
                                    workflowContent |-> decoded.value])
  /\ UNCHANGED <<avars, env, live, remote>>

\* analyzer.analyzeWorkflow(workflowContent)
Analyze(r) ==
  /\ req[r].pc = "Analyzing"
  /\ req' = Set(r, [pc |-> "Deciding",
                    analysisResult |-> analyzeWorkflow(req[r].workflowContent)])
  /\ UNCHANGED <<avars, env, live, remote>>

\* Decide whether to approve or reject.
Decide(r) ==
  /\ req[r].pc = "Deciding"
  /\ req' = Set(r, [pc |-> "Submitting",
                    verdict |-> Decision(req[r].installation, req[r].analysisResult,
                                         ShouldAllow(env))])
  /\ UNCHANGED <<avars, env, live, remote>>

AfterPostRetry(ok) == IF ok THEN [pc |-> "Done"] ELSE [pc |-> "Submitting"]

AfterPostRethrow(ok) ==
  IF ok THEN [pc |-> "Done"] ELSE [pc |-> "Catch", error |-> <<"POST failed">>]

\* How approveDeployment / rejectDeployment end after the POST: a failure
\* is caught and logged, and either way the handler returns.
AfterPost(ok) == [pc |-> "Done"]

\* approveDeployment / rejectDeployment: nothing is posted without a valid
\* client or a run id; a failure of the POST is caught and logged.
Submit(r) ==
  /\ req[r].pc = "Submitting"
  /\ LET call == req[r].verdict
         runId == getWorkflowRunIdFromPayload(req[r].payload)
         ran == [verdictCalls |-> req[r].verdictCalls + 1]
     IN IF InvalidInstallation(call.installation) \/ runId = 0
        THEN req' = Set(r, ran @@ [pc |-> "Done"])
        ELSE LET post == Submission(req[r].payload, runId, call)
             IN \/ req' = Set(r, ran @@ AfterPost(FALSE)
                                   @@ [calls |-> Append(req[r].calls, Failed(post))])
                \/ req' = Set(r, ran @@ AfterPost(TRUE)
                                   @@ [calls |-> Append(req[r].calls,
                                                        Answered(post, Null))])
  /\ UNCHANGED <<avars, env, live, remote>>

\* node cli.js <file>, run in an environment with the same ALLOW_LOCAL_ACTIONS.
CliMain ==
  /\ out.cli = <<>>
  /\ out' = [out EXCEPT !.cli = <<main(input, env)>>]
  /\ UNCHANGED <<input, ref, analyzers, invocations, hvars>>

Init ==
  /\ analyzers = NoAnalyzers
  /\ invocations = <<>>
  /\ input \in CliFiles
  /\ ref = Undef
  /\ out = NoOutput
  /\ env \in EnvValues
  /\ live = {1}
  /\ remote = [r \in Requests |-> ContentData]
  /\ \E installationId \in {0, 11}, deploymentId \in {0, 5}, url \in CallbackUrls :
       req = [r \in Requests |->
                IF r = 1 THEN NewRequest(Payload(r, installationId, deploymentId, url))
                ELSE IdleRequest(r)]

Next ==
  \/ \E r \in live : Receive(r)
  \/ \E r \in live : Authenticate(r)
  \/ \E r \in live : Catch(r)
  \/ \E r \in live : ResolveDeployment(r)
  \/ \E r \in live : ListRuns(r)
  \/ \E r \in live : FetchContent(r)
  \/ \E r \in live : Analyze(r)
  \/ \E r \in live : Decide(r)
  \/ \E r \in live : Submit(r)
  \/ CliMain

Spec == Init /\ [][Next]_vars

\* The answers to a content request while two deliveries are handled: no
\* content, a workflow with two local actions, one with none, an
\* unparsable one.
ConcurrentContent ==
  { Undef,
    Base64(InvalidText),
    Base64(SingleStepText(StrV(<<"a", "/", "b">>))),
    Base64(DocText(Workflow(JobsMap(<<Entry(<<"b", "u", "i", "l", "d">>,
                                            Job(StepList(<<Step(Undef, A),
                                                           Step(StrV(<<"m">>), B)>>)))>>)))) }

\* Two deliveries for different repositories handled at the same time: the
\* first has no callback URL, the second has one.
InitConcurrent ==
  /\ analyzers = NoAnalyzers
  /\ invocations = <<>>
  /\ input = NoArgument
  /\ ref = Undef
  /\ out = NoOutput
  /\ env \in {<<>>, <<"true">>}
  /\ live = Requests
  /\ remote = [r \in Requests |-> ConcurrentContent]
  /\ req = [r \in Requests |->
              IF r = 1 THEN NewRequest(Payload(1, 11, 5, <<>>))
              ELSE NewRequest(Payload(2, 12, 6, CallbackUrl(<<"7", "3">>)))]

SpecConcurrent == InitConcurrent /\ [][Next]_vars

\* A step of the handler for request r.
HandlerStep(r) ==
  \/ Receive(r)
  \/ Authenticate(r)
  \/ Catch(r)
  \/ ResolveDeployment(r)
  \/ ListRuns(r)
  \/ FetchContent(r)
  \/ Analyze(r)
  \/ Decide(r)
  \/ Submit(r)

\* Every awaited call eventually returns or fails and the event loop runs
\* every continuation that is ready.
FairSpec == Spec /\ \A r \in Requests : WF_vars(HandlerStep(r))

(***************************************************************************)
(* Properties of the handler.                                              *)
(***************************************************************************)
IsSubmission(call) == call.op = "POST deployment_protection_rule"
\* The verdict submissions request r has attempted, in order.
Submissions(r) == SelectSeq(req[r].calls, IsSubmission)

\* Request r has finished and its handler analysed a workflow text.
DoneAnalysed(r) == req[r].pc = "Done" /\ req[r].analysisResult # Null

\* The entries of a list of strings, in order, separated by ", ".
RECURSIVE CommaSeparated(_)
CommaSeparated(list) ==
  IF Len(list) = 0 THEN ""
  ELSE IF Len(list) = 1 THEN Str(list[1].s)
  ELSE CommaSeparated(SubSeq(list, 1, Len(list) - 1)) \o ", " \o Str(list[Len(list)].s)

\* C1: a report with local actions and no error, with allowLocalActions
\* false, is answered by the verdict 'rejected' whose rationale is
\* "Deployment rejected: Workflow uses local actions: " followed by every
\* entry of the report's local-action list, joined with ", ".
C1_RejectedNamesLocalActions ==
  \A r \in live :
    (/\ DoneAnalysed(r)
     /\ req[r].analysisResult.error = <<>>
     /\ req[r].analysisResult.hasLocalActions
     /\ env # <<"true">>)
    => /\ Len(Submissions(r)) = 1
       /\ Submissions(r)[1].state = "rejected"
       /\ Submissions(r)[1].comment =
            "Deployment rejected: Workflow uses local actions: "
              \o CommaSeparated(req[r].analysisResult.localActions)

C1_Witness ==
  \E r \in live :
    /\ DoneAnalysed(r)
    /\ Len(req[r].analysisResult.localActions) = 2
    /\ env = <<"false">>
    /\ Len(Submissions(r)) = 1
    /\ Submissions(r)[1].state = "rejected"
    /\ Submissions(r)[1].comment =
         "Deployment rejected: Workflow uses local actions: ./a, ./b"

\* C2: a report that carries an error is answered by the verdict 'rejected'
\* with rationale "could not analyze workflow" (in either letter case),
\* whatever allowLocalActions is.
C2_ErrorReportRejected ==
  \A r \in live :
    (DoneAnalysed(r) /\ req[r].analysisResult.error # <<>>)
    => /\ Len(Submissions(r)) = 1
       /\ Submissions(r)[1].state = "rejected"
       /\ Submissions(r)[1].comment
            \in {"could not analyze workflow", "Could not analyze workflow"}

\* C3 as claimed: at Done exactly one verdict submission has been attempted.
C3_ExactlyOneSubmission ==
  \A r \in live : req[r].pc = "Done" => Len(Submissions(r)) = 1

\* C3 (amended): at Done approveDeployment or rejectDeployment has run
\* exactly once and at most one verdict submission has been attempted:
\* exactly one if and only if the handler obtained an installation client
\* and the run-id fallback chain yields an id, none otherwise.
C3_AtMostOneSubmission ==
  \A r \in live :
    req[r].pc = "Done"
    => /\ req[r].verdictCalls = 1
       /\ Len(Submissions(r)) <= 1
       /\ Len(Submissions(r)) = 1
          <=> /\ req[r].installation # Null
              /\ getWorkflowRunIdFromPayload(req[r].payload) # 0

C3_Witness ==
  \E r \in live :
    /\ req[r].pc = "Done"
    /\ req[r].installation # Null
    /\ req[r].workflowRun = Null
    /\ Len(Submissions(r)) = 1
    /\ ~Submissions(r)[1].ok
    /\ Submissions(r)[1].state = "rejected"

\* Request r lacks context or one of its remote calls failed: no installation
\* id, no deployment id, a failed deployment lookup, a failed or empty run
\* listing, a failed content fetch, content that cannot be decoded or is empty.
ContextMissingOrCallFailed(r) ==
  \/ req[r].payload.installation.id = 0
  \/ req[r].payload.deployment.id = 0
  \/ \E i \in 1..Len(req[r].calls) :
       LET c == req[r].calls[i]
       IN \/ c.op = "GET deployment" /\ ~c.ok
          \/ c.op = "GET runs" /\ (~c.ok \/ Len(c.data) = 0)
          \/ c.op = "GET contents"
             /\ (~c.ok \/ c.data = Undef \/ c.data = Base64(EmptyText))

\* C4: when context is missing or a remote call fails, no 'approved' verdict
\* is submitted for the request and none is about to be.
C4_NoApprovalOnFailure ==
  \A r \in live :
    ContextMissingOrCallFailed(r)
    => /\ \A i \in 1..Len(Submissions(r)) : Submissions(r)[i].state # "approved"
       /\ req[r].verdict # Null => req[r].verdict.fn # "approveDeployment"

C4_Witness ==
  \E r \in live :
    /\ req[r].pc = "Done"
    /\ \E i \in 1..Len(req[r].calls) :
         /\ req[r].calls[i].op = "GET contents"
         /\ req[r].calls[i].ok
         /\ req[r].calls[i].data = Base64(EmptyText)
    /\ Len(Submissions(r)) = 1
    /\ Submissions(r)[1].state = "rejected"
    /\ Submissions(r)[1].comment = "Could not fetch workflow file"

\* C5: a request whose resolved run has the dynamic code-scanning path is
\* approved with rationale "dynamic workflow ignored".
C5_DynamicWorkflowApproved ==
  \A r \in live :
    (req[r].pc = "Done" /\ req[r].workflowRun # Null
     /\ req[r].workflowRun.path = "dynamic/github-code-scanning/codeql")
    => /\ Len(Submissions(r)) = 1
       /\ Submissions(r)[1].state = "approved"
       /\ Submissions(r)[1].comment = "dynamic workflow ignored"

\* C6: a report with local actions and no error, with allowLocalActions
\* true, is answered by the verdict 'approved' whose rationale is
\* "Deployment approved despite local actions: " followed by the same
\* comma-joined list.
C6_ApprovedNamesLocalActions ==
  \A r \in live :
    (/\ DoneAnalysed(r)
     /\ req[r].analysisResult.error = <<>>
     /\ req[r].analysisResult.hasLocalActions
     /\ env = <<"true">>)
    => /\ Len(Submissions(r)) = 1
       /\ Submissions(r)[1].state = "approved"
       /\ Submissions(r)[1].comment =
            "Deployment approved despite local actions: "
              \o CommaSeparated(req[r].analysisResult.localActions)

C6_Witness ==
  \E r \in live :
    /\ DoneAnalysed(r)
    /\ Len(req[r].analysisResult.localActions) = 2
    /\ env = <<"true">>
    /\ Len(Submissions(r)) = 1
    /\ Submissions(r)[1].state = "approved"
    /\ Submissions(r)[1].comment = "Deployment approved despite local actions: ./a, ./b"

\* C7: a report with no error and no local actions is answered by the
\* verdict 'approved' with rationale "Deployment approved: No local actions
\* detected", whatever allowLocalActions is.
C7_ApprovedWithoutLocalActions ==
  \A r \in live :
    (/\ DoneAnalysed(r)
     /\ req[r].analysisResult.error = <<>>
     /\ ~req[r].analysisResult.hasLocalActions)
    => /\ Len(Submissions(r)) = 1
       /\ Submissions(r)[1].state = "approved"
       /\ Submissions(r)[1].comment = "Deployment approved: No local actions detected"

C7_Witness ==
  \E r \in live :
    /\ DoneAnalysed(r)
    /\ req[r].analysisResult.error = <<>>
    /\ req[r].analysisResult.totalSteps = 1
    /\ ~req[r].analysisResult.hasLocalActions
    /\ env # <<"true">>
    /\ Len(Submissions(r)) = 1
    /\ Submissions(r)[1].state = "approved"

(***************************************************************************)
(* Properties of the analyzer.                                             *)
(***************************************************************************)
\* C8: isLocalAction(ref) is true if and only if ref is a string that equals
\* "." or starts with "./"; it is false for every other value.
C8_IsLocalActionIff ==
  out.isLocal # <<>>
  => out.isLocal[1]
     = (/\ ref.t = "string"
        /\ \/ ref.s = <<".">>
           \/ Len(ref.s) >= 2 /\ ref.s[1] = "." /\ ref.s[2] = "/")

C8_Witness ==
  /\ out.isLocal = <<TRUE>>
  /\ ref = StrV(<<".", "/", "a">>)

\* The category of a non-empty reference by the rules in precedence order.
CategoryByPrecedence(s) ==
  IF s = <<".">> \/ (Len(s) >= 2 /\ s[1] = "." /\ s[2] = "/") THEN "local"
  ELSE IF Len(s) >= 9 /\ \A i \in 1..9 : s[i] = DockerPrefix[i] THEN "docker"
  ELSE IF \E i \in 1..Len(s) : s[i] = "/" THEN "external"
  ELSE "marketplace"

Categories == {"local", "external", "marketplace", "docker"}

\* C9: the step of a one-step workflow that uses a non-empty string ref is
\* put in the bucket the precedence rules give (local, else docker, else
\* external, else marketplace) and in no other.
C9_ClassifiedByPrecedence ==
  (out.details # <<>> /\ ref.t = "string" /\ ref.s # <<>>)
  => /\ out.details[1].kind = "details"
     /\ \A c \in Categories :
          Len(out.details[1].actionBreakdown[c])
            = IF c = CategoryByPrecedence(ref.s) THEN 1 ELSE 0
     /\ out.details[1].actionBreakdown[CategoryByPrecedence(ref.s)][1].path = ref

C9_Witness ==
  /\ out.details # <<>>
  /\ ref = StrV(<<"d", "o", "c", "k", "e", "r", ":", "/", "/", "a">>)
  /\ Len(out.details[1].actionBreakdown.docker) = 1
  /\ Len(out.details[1].actionBreakdown.external) = 0

\* The steps of a report that carry a non-empty action reference, as
\* <<position of the job, position of the step>>.
ActionSteps(report) ==
  UNION {{<<j, k>> : k \in {n \in 1..Len(report.jobs[j].steps) :
                              Truthy(report.jobs[j].steps[n].actionPath)}} :
         j \in 1..Len(report.jobs)}

\* The four buckets of details partition the action-bearing steps of report
\* and the summary counts are the buckets' sizes.
BucketsPartition(report, details) ==
  LET b == details.actionBreakdown
      all == b.local \o b.external \o b.marketplace \o b.docker
  IN /\ Len(all) = Cardinality(ActionSteps(report))
     /\ \A p \in ActionSteps(report) :
          Cardinality({i \in 1..Len(all) :
                         /\ all[i].jobName = report.jobs[p[1]].name
                         /\ all[i].stepIndex = report.jobs[p[1]].steps[p[2]].index
                         /\ all[i].path = report.jobs[p[1]].steps[p[2]].actionPath}) = 1
     /\ details.summary.localCount = Len(b.local)
     /\ details.summary.externalCount = Len(b.external)
     /\ details.summary.marketplaceCount = Len(b.marketplace)
     /\ details.summary.dockerCount = Len(b.docker)
     /\ details.summary.totalActions
          = Len(b.local) + Len(b.external) + Len(b.marketplace) + Len(b.docker)

\* C10: for every workflow that analyses without error, getActionDetails
\* yields four buckets that partition the steps with a non-empty action
\* reference, with summary counts equal to the bucket sizes.
C10_BucketsPartitionSteps ==
  (out.analysis # <<>> /\ out.details # <<>> /\ out.analysis[1].error = <<>>)
  => /\ out.details[1].kind = "details"
     /\ BucketsPartition(out.analysis[1], out.details[1])

\* The jobs a workflow text declares, and the steps a job lists (none when
\* the document has no jobs mapping or the job has no list of steps).
DeclaredJobs(text) ==
  IF text.text = "document" /\ text.doc.t = "workflow" /\ text.doc.jobs.t = "jobs"
  THEN text.doc.jobs.entries ELSE <<>>
DeclaredSteps(job) ==
  IF job.t = "job" /\ job.steps.t = "steps" THEN job.steps.items ELSE <<>>

RECURSIVE StepCount(_)
StepCount(entries) ==
  IF entries = <<>> THEN 0
  ELSE Len(DeclaredSteps(Head(entries).val)) + StepCount(Tail(entries))

\* A value is a local reference: the string "." or a string starting "./".
LocalRef(v) ==
  /\ v.t = "string"
  /\ \/ v.s = <<".">>
     \/ Len(v.s) >= 2 /\ v.s[1] = "." /\ v.s[2] = "/"

\* The local references used by the steps of a workflow text.
LocalRefsUsed(text) ==
  UNION {{DeclaredSteps(DeclaredJobs(text)[j].val)[k].uses :
            k \in {n \in 1..Len(DeclaredSteps(DeclaredJobs(text)[j].val)) :
                     /\ DeclaredSteps(DeclaredJobs(text)[j].val)[n].t = "step"
                     /\ LocalRef(DeclaredSteps(DeclaredJobs(text)[j].val)[n].uses)}} :
         j \in 1..Len(DeclaredJobs(text))}

\* C11: for every workflow that analyses without error, totalSteps is the
\* sum of the step counts of all jobs, hasLocalActions is true if and only
\* if some step's reference is local, and the local-action list holds each
\* local reference used in the workflow exactly once and nothing else.
C11_AggregatesMatchWorkflow ==
  (out.analysis # <<>> /\ out.analysis[1].error = <<>>)
  => LET report == out.analysis[1]
     IN /\ report.totalSteps = StepCount(DeclaredJobs(input))
        /\ report.hasLocalActions = (LocalRefsUsed(input) # {})
        /\ \A i \in 1..Len(report.localActions) :
             report.localActions[i] \in LocalRefsUsed(input)
        /\ \A v \in LocalRefsUsed(input) :
             Cardinality({i \in 1..Len(report.localActions) :
                            report.localActions[i] = v}) = 1

\* The same local reference used by two steps, in two jobs.
C11_Witness ==
  /\ out.analysis # <<>>
  /\ out.analysis[1].error = <<>>
  /\ Len(DeclaredJobs(input)) = 2
  /\ out.analysis[1].totalSteps = 2
  /\ out.analysis[1].hasLocalActions
  /\ out.analysis[1].localActions = <<StrV(<<".", "/", "a">>)>>
  /\ \A j \in 1..2 : out.analysis[1].jobs[j].localActions = <<StrV(<<".", "/", "a">>)>>

\* C12: analyzeWorkflow always returns a report to its caller; for a text
\* that fails to parse the report carries the parser's message and every
\* other field at its zero value, and every report that carries an error
\* has hasLocalActions false, no local actions, totalSteps 0 and no jobs.
C12_ErrorReportIsZero ==
  out.analysis # <<>>
  => LET report == out.analysis[1]
     IN /\ DOMAIN report = {"hasLocalActions", "localActions", "totalSteps", "jobs", "error"}
        /\ input.text = "invalid"
           => report = [hasLocalActions |-> FALSE, localActions |-> <<>>,
                        totalSteps |-> 0, jobs |-> <<>>, error |-> <<input.message>>]
        /\ report.error # <<>>
           => /\ report.hasLocalActions = FALSE
              /\ report.localActions = <<>>
              /\ report.totalSteps = 0
              /\ report.jobs = <<>>

C12_Witness ==
  /\ input.text = "invalid"
  /\ out.analysis # <<>>
  /\ out.analysis[1].error = <<"YAMLException: bad indentation of a mapping entry">>
  /\ out.analysis[1].totalSteps = 0

\* C13: for every workflow with zero jobs or zero steps (empty text, no jobs
\* collection, an empty jobs collection, jobs without steps) analyzeWorkflow
\* returns hasLocalActions false, totalSteps 0 and an empty local-action
\* list, with no error.
C13_EmptyWorkflowCleanReport ==
  (/\ out.analysis # <<>>
   /\ input.text # "invalid"
   /\ StepCount(DeclaredJobs(input)) = 0)
  => /\ out.analysis[1].hasLocalActions = FALSE
     /\ out.analysis[1].totalSteps = 0
     /\ out.analysis[1].localActions = <<>>
     /\ out.analysis[1].error = <<>>

\* C14: a request without an installation id ends with the rejection whose
\* rationale is "No installation ID found" (rejectDeployment is called once,
\* with no client, so the rationale is logged and nothing is posted), and no
\* deployment lookup, run listing, content fetch or analysis is made for it.
C14_NoInstallationIdRejected ==
  \A r \in live :
    req[r].payload.installation.id = 0
    => /\ req[r].pc \in {"Received", "Submitting", "Done"}
       /\ req[r].calls = <<>>
       /\ req[r].deployment = Null
       /\ req[r].workflowRun = Null
       /\ req[r].workflowContent = Null
       /\ req[r].analysisResult = Null
       /\ req[r].pc # "Received"
          => req[r].verdict = [fn |-> "rejectDeployment", installation |-> Null,
                               reason |-> "No installation ID found"]
       /\ req[r].pc = "Done" => req[r].verdictCalls = 1

C14_Witness ==
  \E r \in live :
    /\ req[r].pc = "Done"
    /\ req[r].payload.installation.id = 0
    /\ req[r].payload.deployment.id = 5
    /\ req[r].payload.deployment_callback_url # <<>>
    /\ req[r].verdict.fn = "rejectDeployment"
    /\ req[r].verdict.reason = "No installation ID found"
    /\ req[r].calls = <<>>

\* Workflow-run resolution has failed for request r: the handler has a
\* client but the payload has no deployment id, or the deployment lookup
\* failed, or the run listing failed or returned no run.
RunResolutionFailed(r) ==
  \/ /\ req[r].installation # Null
     /\ req[r].payload.deployment.id = 0
     /\ req[r].pc # "ResolvingDeployment"
  \/ \E i \in 1..Len(req[r].calls) :
       LET c == req[r].calls[i]
       IN \/ c.op = "GET deployment" /\ ~c.ok
          \/ c.op = "GET runs" /\ (~c.ok \/ Len(c.data) = 0)

\* C15: when workflow-run resolution fails (no deployment id, a failed
\* deployment lookup, a run listing with zero runs) the handler rejects with
\* rationale "Could not analyze workflow": that is the verdict it passes to
\* rejectDeployment and the only thing it ever submits; it fetches no file
\* content and does not invoke the analyzer.
C15_RunResolutionFailureRejected ==
  \A r \in live :
    RunResolutionFailed(r)
    => /\ req[r].pc \in {"Submitting", "Done"}
       /\ req[r].verdict = [fn |-> "rejectDeployment",
                            installation |-> req[r].installation,
                            reason |-> "Could not analyze workflow"]
       /\ \A i \in 1..Len(req[r].calls) : req[r].calls[i].op # "GET contents"
       /\ req[r].workflowContent = Null
       /\ req[r].analysisResult = Null
       /\ Len(Submissions(r)) <= 1
       /\ \A i \in 1..Len(Submissions(r)) :
            /\ Submissions(r)[i].state = "rejected"
            /\ Submissions(r)[i].comment = "Could not analyze workflow"
       /\ req[r].pc = "Done" => req[r].verdictCalls = 1

\* The run listing answers with zero runs and the rejection is posted
\* against the deployment id.
C15_Witness ==
  \E r \in live :
    /\ req[r].pc = "Done"
    /\ Len(req[r].calls) = 3
    /\ req[r].calls[2].op = "GET runs"
    /\ req[r].calls[2].ok
    /\ req[r].calls[2].data = <<>>
    /\ req[r].calls[3].op = "POST deployment_protection_rule"
    /\ req[r].calls[3].state = "rejected"
    /\ req[r].calls[3].comment = "Could not analyze workflow"
    /\ req[r].calls[3].run_id = 5

\* Fetching the workflow file has failed for request r: the request for the
\* content failed, or what it returned cannot be decoded, or decodes to the
\* empty text.
ContentFetchFailed(r) ==
  \E i \in 1..Len(req[r].calls) :
    LET c == req[r].calls[i]
    IN /\ c.op = "GET contents"
       /\ (~c.ok \/ c.data = Undef \/ c.data = Base64(EmptyText))

\* C16: when fetching or decoding the workflow file fails, or the decoded
\* content is empty, the handler rejects with rationale "Could not fetch
\* workflow file" against the listed run and does not invoke the analyzer.
C16_ContentFailureRejected ==
  \A r \in live :
    ContentFetchFailed(r)
    => /\ req[r].pc \in {"Submitting", "Done"}
       /\ req[r].verdict = [fn |-> "rejectDeployment",
                            installation |-> req[r].installation,
                            reason |-> "Could not fetch workflow file"]
       /\ req[r].workflowContent = Null
       /\ req[r].analysisResult = Null
       /\ req[r].pc = "Done"
          => /\ req[r].verdictCalls = 1
             /\ Len(Submissions(r)) = 1
             /\ Submissions(r)[1].state = "rejected"
             /\ Submissions(r)[1].comment = "Could not fetch workflow file"
             /\ Submissions(r)[1].run_id = req[r].workflowRun.id

\* The content request answers without content, so decoding throws.
C16_Witness ==
  \E r \in live :
    /\ req[r].pc = "Done"
    /\ Len(req[r].calls) = 4
    /\ req[r].calls[3].op = "GET contents"
    /\ req[r].calls[3].ok
    /\ req[r].calls[3].data = Undef
    /\ req[r].analysisResult = Null
    /\ req[r].calls[4].state = "rejected"
    /\ req[r].calls[4].comment = "Could not fetch workflow file"

\* The callback URL has the shape .../actions/runs/{run_id}/deployment_protection_rule.
HasRunNumber(url) ==
  \E i, j \in 1..Len(url) :
    /\ i + 1 < j
    /\ url[i] = "/actions/runs/"
    /\ url[j] = "/deployment_protection_rule"
    /\ \A k \in (i + 1)..(j - 1) :
         url[k] \in {"0", "1", "2", "3", "4", "5", "6", "7", "8", "9"}

\* The number written between those two segments.
RunNumber(url) ==
  LET p == CHOOSE p \in (1..Len(url)) \X (1..Len(url)) :
             /\ p[1] + 1 < p[2]
             /\ url[p[1]] = "/actions/runs/"
             /\ url[p[2]] = "/deployment_protection_rule"
             /\ \A k \in (p[1] + 1)..(p[2] - 1) :
                  url[k] \in {"0", "1", "2", "3", "4", "5", "6", "7", "8", "9"}
      digits == SubSeq(url, p[1] + 1, p[2] - 1)
  IN CHOOSE n \in 0..999 : DecimalChars(n) = digits

\* C17: every verdict is submitted against the run id of the first available
\* source: (a) the id of the run resolved from the run listing, otherwise
\* (b) the number in a callback URL of the shape
\* /actions/runs/{run_id}/deployment_protection_rule, otherwise (c) the
\* deployment id.
C17_RunIdFallbackOrder ==
  \A r \in live :
    \A i \in 1..Len(Submissions(r)) :
      Submissions(r)[i].run_id
        = IF req[r].workflowRun # Null THEN req[r].workflowRun.id
          ELSE IF HasRunNumber(req[r].payload.deployment_callback_url)
          THEN RunNumber(req[r].payload.deployment_callback_url)
          ELSE req[r].payload.deployment.id

\* A listed run with id 71 wins over the 73 of the callback URL.
C17_Witness ==
  \E r \in live :
    /\ req[r].pc = "Done"
    /\ req[r].workflowRun # Null
    /\ req[r].workflowRun.id = 71
    /\ HasRunNumber(req[r].payload.deployment_callback_url)
    /\ RunNumber(req[r].payload.deployment_callback_url) = 73
    /\ req[r].payload.deployment.id = 5
    /\ Len(Submissions(r)) = 1
    /\ Submissions(r)[1].run_id = 71

\* C18: when an exception escapes a stage of the handler (obtaining the
\* installation client throws), the handler catches it and ends with one
\* best-effort rejection: rejectDeployment is called once, whatever is
\* submitted is 'rejected', and without an authenticated client nothing is
\* submitted and the failure is only logged.
C18_EscapedExceptionRejected ==
  \A r \in live :
    req[r].error # <<>>
    => /\ req[r].pc \in {"Catch", "Submitting", "Done"}
       /\ req[r].pc = "Done"
          => /\ req[r].verdictCalls = 1
             /\ req[r].verdict.fn = "rejectDeployment"
             /\ Len(Submissions(r)) <= 1
             /\ \A i \in 1..Len(Submissions(r)) : Submissions(r)[i].state = "rejected"
             /\ req[r].verdict.installation = Null => Submissions(r) = <<>>

\* C19: when the verdict submission itself fails the failure is only logged:
\* the failed submission is the request's only one (no retry, no fallback
\* rejection), no exception leaves the handler and the request is at Done.
C19_SubmissionFailureLoggedOnly ==
  \A r \in live :
    (\E i \in 1..Len(req[r].calls) :
       req[r].calls[i].op = "POST deployment_protection_rule" /\ ~req[r].calls[i].ok)
    => /\ req[r].pc = "Done"
       /\ req[r].error = <<>>
       /\ req[r].verdictCalls = 1
       /\ Len(Submissions(r)) = 1
       /\ req[r].calls[Len(req[r].calls)].op = "POST deployment_protection_rule"

\* An approval whose POST fails.
C19_Witness ==
  \E r \in live :
    /\ req[r].pc = "Done"
    /\ req[r].analysisResult # Null
    /\ Len(Submissions(r)) = 1
    /\ Submissions(r)[1].state = "approved"
    /\ ~Submissions(r)[1].ok

\* C20: allowLocalActions is true only when ALLOW_LOCAL_ACTIONS is exactly
\* the string "true"; unset or with any other value, a workflow with local
\* actions is rejected, by the webhook handler's verdict and by the decision
\* the CLI prints alike.
C20_AllowOnlyOnExactTrue ==
  /\ \A r \in live :
       (DoneAnalysed(r) /\ req[r].analysisResult.hasLocalActions)
       => /\ Len(Submissions(r)) = 1
          /\ Submissions(r)[1].state
               = IF env = <<"true">> THEN "approved" ELSE "rejected"
  /\ (/\ out.cli # <<>>
      /\ out.cli[1].decision # <<>>
      /\ input.text = "document"
      /\ LocalRefsUsed(input) # {})
     => out.cli[1].decision
          = IF env = <<"true">> THEN <<"DEPLOYMENT WOULD BE APPROVED">>
            ELSE <<"DEPLOYMENT WOULD BE REJECTED">>

\* ALLOW_LOCAL_ACTIONS=TRUE: the handler rejects and the CLI reports a
\* rejection.
C20_Witness ==
  /\ env = <<"TRUE">>
  /\ out.cli # <<>>
  /\ out.cli[1].decision = <<"DEPLOYMENT WOULD BE REJECTED">>
  /\ \E r \in live :
       /\ DoneAnalysed(r)
       /\ req[r].analysisResult.hasLocalActions
       /\ Len(Submissions(r)) = 1
       /\ Submissions(r)[1].state = "rejected"

\* Job j of the report lists the steps of the declared job d in declaration
\* order, each with its 0-based position as index.
StepsInDeclarationOrder(reported, declared) ==
  /\ Len(reported.steps) = Len(DeclaredSteps(declared.val))
  /\ \A k \in 1..Len(reported.steps) :
       /\ reported.steps[k].index = k - 1
       /\ reported.steps[k].actionPath
            = IF Truthy(DeclaredSteps(declared.val)[k].uses)
              THEN DeclaredSteps(declared.val)[k].uses ELSE Null

\* C21: in every analysis report the jobs appear in the order in which the
\* source document declares them, for every set of job names (names that
\* look like integers included), and within each job the steps appear in
\* declaration order with index equal to their 0-based position.
C21_DeclarationOrder ==
  (out.analysis # <<>> /\ out.analysis[1].error = <<>>)
  => LET report == out.analysis[1]
         declared == DeclaredJobs(input)
     IN /\ Len(report.jobs) = Len(declared)
        /\ \A j \in 1..Len(report.jobs) :
             /\ report.jobs[j].name = declared[j].key
             /\ StepsInDeclarationOrder(report.jobs[j], declared[j])

\* The declared job that the report's job named `name` was made from.
DeclaredJob(text, name) ==
  (CHOOSE j \in 1..Len(DeclaredJobs(text)) : DeclaredJobs(text)[j].key = name)

\* "Step N" for the step at 1-based position n.
SynthesizedName(n) ==
  [t |-> "string",
   s |-> <<"S", "t", "e", "p", " ">>
         \o <<(<<"1", "2", "3", "4", "5", "6", "7", "8", "9">>)[n]>>]

\* C22 as claimed: a step that declares no name is named "Step N", N its
\* 1-based position within its job, and a step that declares a name keeps
\* that name unchanged.
C22_NameKeptWhenDeclared ==
  (out.analysis # <<>> /\ out.analysis[1].error = <<>>)
  => \A j \in 1..Len(out.analysis[1].jobs) :
       LET job == out.analysis[1].jobs[j]
           steps == DeclaredSteps(DeclaredJobs(input)[DeclaredJob(input, job.name)].val)
       IN \A k \in 1..Len(job.steps) :
            job.steps[k].name
              = IF steps[k].name = Undef THEN SynthesizedName(k) ELSE steps[k].name

\* C22 (amended): a step whose name is absent or falsy (null, the empty
\* string, 0, false) is named "Step N", N its 1-based position within its
\* job; a step with any other name keeps that name unchanged.
C22_NameKeptWhenTruthy ==
  (out.analysis # <<>> /\ out.analysis[1].error = <<>>)
  => \A j \in 1..Len(out.analysis[1].jobs) :
       LET job == out.analysis[1].jobs[j]
           steps == DeclaredSteps(DeclaredJobs(input)[DeclaredJob(input, job.name)].val)
       IN \A k \in 1..Len(job.steps) :
            job.steps[k].name
              = IF steps[k].name \in {[t |-> "undefined"], [t |-> "null"],
                                      [t |-> "string", s |-> <<>>],
                                      [t |-> "number", n |-> 0],
                                      [t |-> "boolean", b |-> FALSE]}
                THEN SynthesizedName(k) ELSE steps[k].name

\* A named first step keeps its name and an unnamed second step is "Step 2".
C22_Witness ==
  /\ out.analysis # <<>>
  /\ out.analysis[1].error = <<>>
  /\ Len(out.analysis[1].jobs) = 1
  /\ Len(out.analysis[1].jobs[1].steps) = 2
  /\ DeclaredSteps(DeclaredJobs(input)[1].val)[2].name = Undef
  /\ out.analysis[1].jobs[1].steps[1].name = StrV(<<"n">>)
  /\ out.analysis[1].jobs[1].steps[2].name = StrV(<<"S", "t", "e", "p", " ", "2">>)

C24_CliVerdictEqualsHandler ==
  \A r \in live :
    (DoneAnalysed(r) /\ out.cli # <<>> /\ input = req[r].workflowContent)
    => /\ out.cli[1].decision # <<>>
       /\ Len(Submissions(r)) = 1
       /\ (out.cli[1].decision = <<"DEPLOYMENT WOULD BE APPROVED">>)
          <=> (Submissions(r)[1].state = "approved")

\* C25: for every workflow text that parses into a document in which at
\* least one step declares a local action reference, with allowLocalActions
\* false, the handler never submits 'approved', also when another job or
\* step of the document is malformed.
C25_LocalActionNeverApproved ==
  \A r \in live :
    (/\ req[r].workflowContent # Null
     /\ req[r].workflowContent.text = "document"
     /\ LocalRefsUsed(req[r].workflowContent) # {}
     /\ env # <<"true">>)
    => /\ \A i \in 1..Len(Submissions(r)) : Submissions(r)[i].state # "approved"
       /\ req[r].verdict # Null => req[r].verdict.fn # "approveDeployment"

\* The position of a stage in the order of the handler; Authenticating is
\* the step from Received to ResolvingDeployment, and Catch and Failed are
\* the handler's abort.
StageRank(pc) ==
  CASE pc = "Idle" -> 0
    [] pc = "Received" -> 1
    [] pc = "Authenticating" -> 2
    [] pc = "ResolvingDeployment" -> 3
    [] pc = "ResolvingWorkflowRun" -> 4
    [] pc = "FetchingContent" -> 5
    [] pc = "Analyzing" -> 6
    [] pc = "Deciding" -> 7
    [] pc = "Submitting" -> 8
    [] pc = "Done" -> 9
    [] pc = "Catch" -> 10
    [] pc = "Failed" -> 11

\* Call i of request r was preceded by an answered call of operation op.
AnsweredBefore(r, i, op) ==
  \E j \in 1..(i - 1) : req[r].calls[j].op = op /\ req[r].calls[j].ok

\* What has happened so far in request r respects the order of the stages.
StagesInOrder(r) ==
  /\ \A i \in 1..Len(req[r].calls) :
       LET c == req[r].calls[i]
       IN /\ c.op = "GET deployment" => i = 1
          /\ c.op = "GET runs" => i = 2 /\ AnsweredBefore(r, i, "GET deployment")
          /\ c.op = "GET contents"
             => /\ i = 3
                /\ AnsweredBefore(r, i, "GET runs")
                /\ Len(req[r].calls[2].data) > 0
          /\ c.op = "POST deployment_protection_rule"
             => /\ i = Len(req[r].calls)
                /\ c.state = "approved"
                   => /\ req[r].analysisResult # Null
                      /\ AnsweredBefore(r, i, "GET contents")
  /\ req[r].analysisResult # Null
     => /\ req[r].workflowContent # Null
        /\ \E j \in 1..Len(req[r].calls) :
             req[r].calls[j].op = "GET contents" /\ req[r].calls[j].ok
  /\ StageRank(req[r].pc) >= 6 /\ StageRank(req[r].pc) <= 7
     => req[r].workflowContent # Null
  /\ req[r].pc = "FetchingContent" => req[r].workflowRun # Null
  /\ req[r].pc = "ResolvingWorkflowRun" => req[r].deployment # Null

\* C26: within one request the stages occur only in the order Received,
\* ResolvingDeployment, ResolvingWorkflowRun, FetchingContent, Analyzing,
\* Deciding, Submitting, Done: every step moves the request to a later
\* stage, the run listing is never issued before the deployment lookup
\* succeeded, content is never fetched before a run was resolved, analysis
\* never happens before content was decoded, and an 'approved' submission
\* never happens before analysis completed.
C26_StagesInOrder ==
  /\ [](\A r \in live : StagesInOrder(r))
  /\ [][\A r \in live :
          req'[r] # req[r] => StageRank(req'[r].pc) > StageRank(req[r].pc)]_vars

\* A request that went through every stage and was approved.
C26_Witness ==
  \E r \in live :
    /\ req[r].pc = "Done"
    /\ Len(req[r].calls) = 4
    /\ req[r].calls[1].op = "GET deployment"
    /\ req[r].calls[2].op = "GET runs"
    /\ req[r].calls[3].op = "GET contents"
    /\ req[r].calls[4].op = "POST deployment_protection_rule"
    /\ req[r].calls[4].state = "approved"
    /\ req[r].analysisResult # Null

RemoteOperations ==
  {"GET deployment", "GET runs", "GET contents", "POST deployment_protection_rule"}

\* C27: within one request each remote operation (deployment lookup, run
\* listing, content fetch, verdict submission) is invoked at most once, and a
\* failed call is never followed by another call of the same operation: the
\* only call that can follow a failed lookup, listing or fetch is the one
\* submission of the rejection.
C27_EachOperationAtMostOnce ==
  \A r \in live :
    /\ \A op \in RemoteOperations :
         Cardinality({i \in 1..Len(req[r].calls) : req[r].calls[i].op = op}) <= 1
    /\ \A i \in 1..Len(req[r].calls) :
         /\ req[r].calls[i].op \in RemoteOperations
         /\ ~req[r].calls[i].ok
            => \A j \in (i + 1)..Len(req[r].calls) :
                 /\ req[r].calls[j].op = "POST deployment_protection_rule"
                 /\ req[r].calls[j].state = "rejected"
                 /\ req[r].calls[i].op # "POST deployment_protection_rule"

\* The run listing fails, the rejection is submitted, and its POST fails too.
C27_Witness ==
  \E r \in live :
    /\ req[r].pc = "Done"
    /\ Len(req[r].calls) = 3
    /\ req[r].calls[1].ok
    /\ req[r].calls[2].op = "GET runs"
    /\ ~req[r].calls[2].ok
    /\ req[r].calls[3].op = "POST deployment_protection_rule"
    /\ ~req[r].calls[3].ok

\* C28: provided every remote call eventually returns or fails, every
\* request that begins processing eventually reaches Done with the handler
\* completing normally, whichever remote calls succeed or fail.
C28_EveryRequestReachesDone ==
  \A r \in Requests : (req[r].pc = "Received") ~> (req[r].pc = "Done")

\* The verdict request r's own context calls for: what its own analysis,
\* or the stage at which it failed, determines.
OwnVerdict(r) ==
  IF req[r].analysisResult # Null
  THEN IF req[r].analysisResult.hasLocalActions /\ env # <<"true">>
       THEN [state |-> "rejected",
             comment |-> "Deployment rejected: Workflow uses local actions: "
                           \o CommaSeparated(req[r].analysisResult.localActions)]
       ELSE [state |-> "approved",
             comment |-> IF req[r].analysisResult.hasLocalActions
                         THEN "Deployment approved despite local actions: "
                                \o CommaSeparated(req[r].analysisResult.localActions)
                         ELSE "Deployment approved: No local actions detected"]
  ELSE IF req[r].workflowRun # Null
  THEN [state |-> "rejected", comment |-> "Could not fetch workflow file"]
  ELSE [state |-> "rejected", comment |-> "Could not analyze workflow"]

\* The run id request r's own context gives: its listed run, else the number
\* in its callback URL, else its deployment id.
OwnRunId(r) ==
  IF req[r].workflowRun # Null THEN req[r].workflowRun.id
  ELSE IF HasRunNumber(req[r].payload.deployment_callback_url)
  THEN RunNumber(req[r].payload.deployment_callback_url)
  ELSE req[r].payload.deployment.id

\* C29: when two requests are processed concurrently, under every
\* interleaving of their remote calls each request's submission carries
\* that request's own owner, repository, environment name, run id, state
\* and rationale, and every remote call of a request names its own
\* repository.
C29_RequestsIsolated ==
  \A r \in live :
    /\ \A i \in 1..Len(req[r].calls) :
         /\ req[r].calls[i].owner = <<"owner", r>>
         /\ req[r].calls[i].repo = <<"repo", r>>
    /\ \A i \in 1..Len(Submissions(r)) :
         /\ Submissions(r)[i].environment_name = <<"env", r>>
         /\ Submissions(r)[i].run_id = OwnRunId(r)
         /\ Submissions(r)[i].state = OwnVerdict(r).state
         /\ Submissions(r)[i].comment = OwnVerdict(r).comment

\* Request 1 is approved against its listed run 71 while request 2, whose
\* run listing came back empty in between, is rejected against the 73 of
\* its callback URL.
C29_Witness ==
  /\ live = {1, 2}
  /\ req[1].pc = "Done"
  /\ req[2].pc = "Done"
  /\ req[1].workflowRun # Null
  /\ req[1].workflowRun.id = 71
  /\ req[2].workflowRun = Null
  /\ Len(Submissions(1)) = 1
  /\ Len(Submissions(2)) = 1
  /\ Submissions(1)[1].run_id = 71
  /\ Submissions(1)[1].state = "approved"
  /\ Submissions(2)[1].run_id = 73
  /\ Submissions(2)[1].state = "rejected"
  /\ Submissions(2)[1].repo = <<"repo", 2>>

\* The calls of request r with the operation op that precede its i-th call.
EarlierCalls(r, i, op) ==
  {j \in 1..(i - 1) : req[r].calls[j].op = op}

\* C30: the run listing is filtered by the sha the deployment lookup
\* answered, the run used is the first run of the answered listing, and the
\* workflow file is requested at that run's path and head commit, never at
\* the deployment's ref.
C30_RunAndFileFromListing ==
  \A r \in live :
    /\ \A i \in 1..Len(req[r].calls) :
         LET call == req[r].calls[i]
         IN /\ call.op = "GET runs" =>
                 /\ \E j \in EarlierCalls(r, i, "GET deployment") :
                      /\ req[r].calls[j].ok
                      /\ call.head_sha = req[r].calls[j].data.sha
                 /\ (call.ok /\ Len(call.data) > 0) =>
                      req[r].workflowRun = call.data[1]
            /\ call.op = "GET contents" =>
                 /\ \E j \in EarlierCalls(r, i, "GET runs") :
                      /\ req[r].calls[j].ok
                      /\ Len(req[r].calls[j].data) > 0
                      /\ req[r].workflowRun = req[r].calls[j].data[1]
                      /\ call.path = req[r].calls[j].data[1].path
                      /\ call.ref = req[r].calls[j].data[1].head_sha
                 /\ \A j \in EarlierCalls(r, i, "GET deployment") :
                      req[r].calls[j].ok => call.ref # req[r].calls[j].data.ref
    /\ req[r].workflowRun # Null =>
         \E i \in 1..Len(req[r].calls) :
           /\ req[r].calls[i].op = "GET runs"
           /\ req[r].calls[i].ok
           /\ Len(req[r].calls[i].data) > 0
           /\ req[r].calls[i].data[1] = req[r].workflowRun

\* The listing answered the CodeQL run, and its file was requested at the
\* dynamic path and at the run's commit, and answered.
C30_Witness ==
  \E r \in live :
    /\ req[r].pc = "Done"
    /\ req[r].workflowRun # Null
    /\ req[r].workflowRun.path = DynamicPath
    /\ \E i \in 1..Len(req[r].calls) :
         /\ req[r].calls[i].op = "GET contents"
         /\ req[r].calls[i].ok
         /\ req[r].calls[i].path = DynamicPath
         /\ req[r].calls[i].ref = "sha1"

\* C31: getActionDetails returns a result for every workflow text and never
\* raises; a step whose action reference is present but is no string is
\* skipped or counted as not local.
C31_GetActionDetailsNeverRaises ==
  out.details # <<>> => out.details[1].kind \in {"report", "details"}

\* C32: for every workflow text the hasLocalActions, localActions,
\* totalSteps and jobs of the getActionDetails result equal those of the
\* analyzeWorkflow report for the same text, and for a text with a parse
\* error getActionDetails returns exactly the error report, with no
\* breakdown and no summary.
C32_DetailsKeepTheReport ==
  out.details # <<>> =>
    LET analysis == analyzeWorkflow(input)
        details == out.details[1]
    IN IF analysis.error # <<>>
       THEN details = [kind |-> "report", analysis |-> analysis]
       ELSE /\ details.kind = "details"
            /\ details.analysis.hasLocalActions = analysis.hasLocalActions
            /\ details.analysis.localActions = analysis.localActions
            /\ details.analysis.totalSteps = analysis.totalSteps
            /\ details.analysis.jobs = analysis.jobs

\* C33: in every error-free report each job's hasLocalActions is true if
\* and only if at least one of that job's steps is local, and the report's
\* hasLocalActions is the OR of the jobs' hasLocalActions and is true if and
\* only if the report's local-action list is not empty.
C33_FlagsAreDerived ==
  (out.analysis # <<>> /\ out.analysis[1].error = <<>>)
  => LET report == out.analysis[1]
     IN /\ \A j \in 1..Len(report.jobs) :
             report.jobs[j].hasLocalActions
               = (\E k \in 1..Len(report.jobs[j].steps) :
                    report.jobs[j].steps[k].hasLocalAction)
        /\ report.hasLocalActions
             = (\E j \in 1..Len(report.jobs) : report.jobs[j].hasLocalActions)
        /\ report.hasLocalActions = (report.localActions # <<>>)

\* Two jobs, the first with a local step and the second without one.
C33_Witness ==
  /\ out.analysis # <<>>
  /\ out.analysis[1].error = <<>>
  /\ Len(out.analysis[1].jobs) = 2
  /\ out.analysis[1].jobs[1].hasLocalActions
  /\ ~out.analysis[1].jobs[2].hasLocalActions
  /\ Len(out.analysis[1].jobs[2].steps) = 1
  /\ out.analysis[1].hasLocalActions
  /\ out.analysis[1].localActions = <<StrV(<<".", "/", "a">>)>>

\* The runs whose path and head commit request r used to fetch the file it
\* analysed: the first run of an answered listing, named by an answered
\* content request.
RunsFetchedFrom(r) ==
  {req[r].calls[i].data[1] :
     i \in {n \in 1..Len(req[r].calls) :
              /\ req[r].calls[n].op = "GET runs"
              /\ req[r].calls[n].ok
              /\ Len(req[r].calls[n].data) > 0
              /\ \E m \in (n + 1)..Len(req[r].calls) :
                   /\ req[r].calls[m].op = "GET contents"
                   /\ req[r].calls[m].ok
                   /\ req[r].calls[m].path = req[r].calls[n].data[1].path
                   /\ req[r].calls[m].ref = req[r].calls[n].data[1].head_sha}}

\* C34: whenever a verdict derived from analysis is submitted (approved, or
\* rejected for local actions), its run id is the id of the workflow run
\* whose path and head commit were used to fetch the analysed file, not the
\* number in the callback URL and not the deployment id.
C34_VerdictAgainstAnalysedRun ==
  \A r \in live :
    req[r].analysisResult # Null =>
      \A i \in 1..Len(Submissions(r)) :
        /\ Cardinality(RunsFetchedFrom(r)) = 1
        /\ \A run \in RunsFetchedFrom(r) : Submissions(r)[i].run_id = run.id
        /\ Submissions(r)[i].run_id # req[r].payload.deployment.id
        /\ (/\ HasRunNumber(req[r].payload.deployment_callback_url)
            /\ \A run \in RunsFetchedFrom(r) :
                 RunNumber(req[r].payload.deployment_callback_url) # run.id)
           => Submissions(r)[i].run_id
                # RunNumber(req[r].payload.deployment_callback_url)

\* The file of the CodeQL run 72 had a local action: the rejection goes to
\* run 72 although the callback URL says 73 and the deployment is 5.
C34_Witness ==
  \E r \in live :
    /\ req[r].pc = "Done"
    /\ req[r].analysisResult # Null
    /\ req[r].analysisResult.hasLocalActions
    /\ RunsFetchedFrom(r) = {[id |-> 72, name |-> "CodeQL", path |-> DynamicPath,
                               head_sha |-> "sha1"]}
    /\ HasRunNumber(req[r].payload.deployment_callback_url)
    /\ RunNumber(req[r].payload.deployment_callback_url) = 73
    /\ req[r].payload.deployment.id = 5
    /\ Len(Submissions(r)) = 1
    /\ Submissions(r)[1].state = "rejected"
    /\ Submissions(r)[1].run_id = 72

\* C35: no request ever produces more than one verdict submission, none has
\* both an 'approved' and a 'rejected' submission, on any path through the
\* handler, the failure branches and the top-level catch included, and
\* every submitted state is the token 'approved' or the token 'rejected'.
C35_OneVerdictOfTwoTokens ==
  \A r \in live :
    /\ Len(Submissions(r)) <= 1
    /\ ~(/\ \E i \in 1..Len(Submissions(r)) : Submissions(r)[i].state = "approved"
         /\ \E i \in 1..Len(Submissions(r)) : Submissions(r)[i].state = "rejected")
    /\ \A i \in 1..Len(Submissions(r)) :
         Submissions(r)[i].state \in {"approved", "rejected"}
    /\ req[r].pc = "Failed" => Len(Submissions(r)) = 0

\* A failure branch: the content request failed, and the handler ended
\* after the one rejection it submitted, which was accepted.
C35_Witness ==
  \E r \in live :
    /\ req[r].pc = "Done"
    /\ \E i \in 1..Len(req[r].calls) :
         req[r].calls[i].op = "GET contents" /\ ~req[r].calls[i].ok
    /\ req[r].verdictCalls = 1
    /\ Len(Submissions(r)) = 1
    /\ Submissions(r)[1].ok
    /\ Submissions(r)[1].state = "rejected"
    /\ Submissions(r)[1].comment = "Could not fetch workflow file"

====
